---- MODULE Spec2Model ----
(***************************************************************************)
(* WaveLogGoat (waveloggoat.go): a bridge that polls a radio-control       *)
(* daemon (flrig over XML-RPC, or hamlib's rigctld over a TCP line         *)
(* protocol) and forwards changes of the radio state to Wavelog by HTTP    *)
(* POST.  The module models main(): flag parsing, the configuration file,  *)
(* the profile merge, the two special requests, validation, and the poll   *)
(* loop with both GetData implementations and postToWavelog.               *)
(*                                                                         *)
(* float64 values are modelled in tenths (15 stands for 1.5); only finite  *)
(* values are in the domain.  Texts are modelled by a few representative   *)
(* strings, and every conversion on them is a table over those strings.    *)
(***************************************************************************)
EXTENDS Integers, Sequences, FiniteSets, TLC

(* ------------------------------ bounds --------------------------------- *)

\* The largest value rig.get_split is taken to answer (0 .. MaxSplit).
MaxSplit == 1

\* The largest number of flags given on one command line.
MaxFlags == 2

(* ------------------------------ RigData -------------------------------- *)

\* type RigData struct: the zero value, which `var lastData RigData` holds.
ZeroRigData ==
    [FreqVFOA |-> 0, FreqVFOB |-> 0, Mode |-> "", ModeB |-> "",
     Split |-> 0, Power |-> 0]

\* The frequency and power texts a daemon is taken to answer: two numbers,
\* and two texts that are no number, one of them a phrase that main looks
\* for in error texts.
NumTexts == {"0", "1.5", "junk", "dial tcp"}

\* strconv.ParseFloat(s, 64): the value in tenths, or an error.
ParseFloat(s) ==
    CASE s = "0"   -> [ok |-> TRUE, v |-> 0]
      [] s = "1.5" -> [ok |-> TRUE, v |-> 15]
      [] OTHER     -> [ok |-> FALSE, v |-> 0]

\* float64(power) of an int.
Float64(n) == n * 10

\* A conversion that rounds to the nearest integer instead.
IntOf_Round(f) == IF f >= 0 THEN (f + 5) \div 10 ELSE -((5 - f) \div 10)

\* int(f) of a float64: truncation towards zero.
IntOf(f) == IF f >= 0 THEN f \div 10 ELSE -((-f) \div 10)

(* ------------------------------- errors -------------------------------- *)

\* A Go error value: whether it is non-nil, whether errors.As finds a
\* net.Error in its chain whose Timeout() is true, and the pieces its
\* Error() text is made of.
NoError == [isErr |-> FALSE, timeout |-> FALSE, text |-> <<>>]

Err(timeout, text) == [isErr |-> TRUE, timeout |-> timeout, text |-> text]

\* fmt.Errorf(prefix + "%w", err): the text is prefixed, the chain is kept.
Wrap(prefix, e) == Err(e.timeout, <<prefix>> \o e.text)

\* The ways a network operation is taken to fail.
NetFailure(kind) ==
    CASE kind = "refused" -> Err(FALSE, <<"dial tcp", "connection refused">>)
      [] kind = "timeout" -> Err(TRUE, <<"dial tcp", "i/o timeout">>)
      [] kind = "reset"   -> Err(FALSE, <<"read tcp", "connection reset by peer">>)
      [] OTHER            -> Err(FALSE, <<"xmlrpc fault">>)

\* The error strconv.ParseFloat returns for text s.
NumError(s) == Err(FALSE, <<"strconv.ParseFloat: parsing ", s, ": invalid syntax">>)

\* strings.Contains(err.Error(), needle), for the two needles main uses.
Contains(e, needle) == \E i \in 1..Len(e.text) : e.text[i] = needle

\* One log call: its level and what it reports.
LogEntry(level, event) == [level |-> level, event |-> event]

(* ------------------------- flrig: XML-RPC ------------------------------ *)

\* The outcome of one client.Call: not made, failed, or a decoded value.
NotCalled  == [st |-> "none"]
CallFailed(kind) == [st |-> "fail", kind |-> kind]
Reply(v)   == [st |-> "ok", v |-> v]

FlrigModes == {"", "USB"}

\* What the daemon may answer to each of the six calls.  A failure of a
\* call whose error is returned has a kind (it decides the log level).
MandatoryFailures == {CallFailed(k) : k \in {"refused", "timeout", "fault"}}
ToleratedFailures == {CallFailed("fault")}

FlrigReplies ==
    [vfo   : MandatoryFailures \cup {Reply(t) : t \in NumTexts},
     mode  : MandatoryFailures \cup {Reply(m) : m \in FlrigModes},
     power : ToleratedFailures \cup {Reply(p) : p \in {0, 5}},
     split : ToleratedFailures \cup {Reply(s) : s \in 0..MaxSplit},
     vfoB  : ToleratedFailures \cup {Reply(t) : t \in NumTexts},
     modeB : ToleratedFailures \cup {Reply(m) : m \in FlrigModes}]

\* xmlrpc.NewClient fails when the URL built from the host does not parse.
NewClientFails(host) == host = "bad host"

\* (f *FlrigClient) GetData, after the client was created, given the
\* daemon's answers r: the RigData and error returned, and the log calls.
FlrigCalls(r) ==
    IF r.vfo.st # "ok"
    THEN [data |-> ZeroRigData,
          err |-> Wrap("call failed to rig.get_vfo: ", NetFailure(r.vfo.kind)),
          logs |-> <<>>]
    ELSE IF ~ParseFloat(r.vfo.v).ok
    THEN [data |-> ZeroRigData, err |-> NumError(r.vfo.v),
          logs |-> <<LogEntry("error", "Failed to parse vfo frequency")>>]
    ELSE IF r.mode.st # "ok"
    THEN [data |-> ZeroRigData,
          err |-> Wrap("call failed to rig.get_mode: ", NetFailure(r.mode.kind)),
          logs |-> <<>>]
    ELSE
      LET power == IF r.power.st = "ok" THEN r.power.v ELSE 0
          split == IF r.split.st = "ok" THEN r.split.v ELSE 0
          vfoB  == IF r.vfoB.st = "ok" THEN r.vfoB.v ELSE r.vfo.v
          modeB == IF r.modeB.st = "ok" THEN r.modeB.v ELSE r.mode.v
          l1 == IF r.power.st = "ok" THEN <<>>
                ELSE <<LogEntry("debug", "call failed to rig.get_power")>>
          l2 == IF r.split.st = "ok" THEN <<>>
                ELSE <<LogEntry("warn", "call failed to rig.get_split")>>
          l3 == IF r.vfoB.st = "ok" THEN <<>>
                ELSE <<LogEntry("debug", "call failed to rig.get_vfoB")>>
          l4 == IF r.modeB.st = "ok" THEN <<>>
                ELSE <<LogEntry("debug", "call failed to rig.get_modeB")>>
      IN  IF ~ParseFloat(vfoB).ok
          THEN [data |-> ZeroRigData, err |-> NumError(vfoB),
                logs |-> l1 \o l2 \o l3
                         \o <<LogEntry("error", "Failed to parse vfoB frequency")>>]
          ELSE [data |-> [FreqVFOA |-> ParseFloat(r.vfo.v).v,
                          FreqVFOB |-> ParseFloat(vfoB).v,
                          Mode     |-> r.mode.v,
                          ModeB    |-> modeB,
                          Split    |-> split,
                          Power    |-> Float64(power)],
                err |-> NoError,
                logs |-> l1 \o l2 \o l3 \o l4 \o <<LogEntry("debug", "Got data")>>]

\* The calls GetData makes before it returns: the answers to the others
\* are never asked for.
FlrigAsked(r) ==
    IF r.vfo.st # "ok" \/ ~ParseFloat(r.vfo.v).ok
    THEN [r EXCEPT !.mode = NotCalled, !.power = NotCalled, !.split = NotCalled,
                   !.vfoB = NotCalled, !.modeB = NotCalled]
    ELSE IF r.mode.st # "ok"
    THEN [r EXCEPT !.power = NotCalled, !.split = NotCalled,
                   !.vfoB = NotCalled, !.modeB = NotCalled]
    ELSE IF r.vfoB.st = "ok" /\ ~ParseFloat(r.vfoB.v).ok
    THEN [r EXCEPT !.modeB = NotCalled]
    ELSE r

\* The exchanges one flrig read can consist of.
FlrigExchanges == {FlrigAsked(r) : r \in FlrigReplies}

(* ----------------------- hamlib: rigctld over TCP ---------------------- *)

\* One command/response exchange: the send failed, the read failed, or a
\* line came back.
SendFailed == [st |-> "sendfail"]
ReadFailed == [st |-> "readfail"]
Line(t)    == [st |-> "ok", v |-> t]

\* The lines rigctld is taken to answer to m.
ModeLines == {"USB 2400", "CW 500", ""}

\* A split that yields the tokens last to first.
Fields_Reversed(line) ==
    CASE line = "USB 2400" -> <<"2400", "USB">>
      [] line = "CW 500"   -> <<"500", "CW">>
      [] OTHER             -> <<>>

\* strings.Fields(line): the whitespace-separated tokens.
Fields(line) ==
    CASE line = "USB 2400" -> <<"USB", "2400">>
      [] line = "CW 500"   -> <<"CW", "500">>
      [] OTHER             -> <<>>

HamlibReplies ==
    [dial : {[st |-> "ok"]} \cup {CallFailed(k) : k \in {"refused", "timeout"}},
     f    : {SendFailed, ReadFailed} \cup {Line(t) : t \in NumTexts},
     m    : {SendFailed, ReadFailed} \cup {Line(t) : t \in ModeLines},
     P    : {SendFailed, ReadFailed} \cup {Line(t) : t \in NumTexts}]

\* (h *HamlibClient) GetData given the daemon's behaviour r: the RigData
\* and error returned, and the log calls.
HamlibCalls(r) ==
    IF r.dial.st # "ok"
    THEN [data |-> ZeroRigData,
          err |-> Wrap("hamlib connection error: ", NetFailure(r.dial.kind)),
          logs |-> <<>>]
    ELSE IF r.f.st = "sendfail"
    THEN [data |-> ZeroRigData,
          err |-> Wrap("failed to send 'f' command to hamlib: ", NetFailure("reset")),
          logs |-> <<>>]
    ELSE IF r.f.st = "readfail"
    THEN [data |-> ZeroRigData,
          err |-> Wrap("failed to read frequency response from hamlib: ",
                       NetFailure("reset")),
          logs |-> <<>>]
    ELSE IF ~ParseFloat(r.f.v).ok
    THEN [data |-> ZeroRigData,
          err |-> Err(FALSE, <<"failed to parse frequency '", r.f.v, "': ">>
                             \o NumError(r.f.v).text),
          logs |-> <<>>]
    ELSE IF r.m.st = "sendfail"
    THEN [data |-> ZeroRigData,
          err |-> Wrap("failed to send 'm' command to hamlib: ", NetFailure("reset")),
          logs |-> <<>>]
    ELSE IF r.m.st = "readfail"
    THEN [data |-> ZeroRigData,
          err |-> Wrap("failed to read mode response from hamlib: ",
                       NetFailure("reset")),
          logs |-> <<>>]
    ELSE IF Len(Fields(r.m.v)) = 0
    THEN [data |-> ZeroRigData,
          err |-> Err(FALSE, <<"invalid mode response format from hamlib: '",
                               r.m.v, "'">>),
          logs |-> <<>>]
    ELSE
      LET powerOK == r.P.st = "ok" /\ ParseFloat(r.P.v).ok
      IN  [data |-> [FreqVFOA |-> ParseFloat(r.f.v).v,
                     FreqVFOB |-> ParseFloat(r.f.v).v,
                     Mode     |-> Fields(r.m.v)[1],
                     ModeB    |-> Fields(r.m.v)[1],
                     Split    |-> 0,
                     Power    |-> IF powerOK THEN ParseFloat(r.P.v).v ELSE 0],
           err |-> NoError,
           logs |-> IF powerOK THEN <<>>
                    ELSE <<LogEntry("warn", "power unavailable, sending 0 W")>>]

\* The exchanges GetData makes before it returns.
HamlibAsked(r) ==
    IF r.dial.st # "ok"
    THEN [r EXCEPT !.f = NotCalled, !.m = NotCalled, !.P = NotCalled]
    ELSE IF r.f.st # "ok" \/ ~ParseFloat(r.f.v).ok
    THEN [r EXCEPT !.m = NotCalled, !.P = NotCalled]
    ELSE IF r.m.st # "ok" \/ Len(Fields(r.m.v)) = 0
    THEN [r EXCEPT !.P = NotCalled]
    ELSE r

\* The exchanges one hamlib read can consist of.
HamlibExchanges == {HamlibAsked(r) : r \in HamlibReplies}

(* --------------------------- postToWavelog ----------------------------- *)

\* The WavelogJSONRequest postToWavelog fills in.
Payload(config, data) ==
    IF data.Split # 0
    THEN [Key |-> config.WavelogKey, Radio |-> config.RadioName,
          Power |-> data.Power,
          Frequency |-> IntOf(data.FreqVFOB), Mode |-> data.ModeB,
          FrequencyRX |-> IntOf(data.FreqVFOA), ModeRX |-> data.Mode]
    ELSE [Key |-> config.WavelogKey, Radio |-> config.RadioName,
          Power |-> data.Power,
          Frequency |-> IntOf(data.FreqVFOA), Mode |-> data.Mode,
          FrequencyRX |-> 0, ModeRX |-> ""]

\* json.Marshal of a WavelogJSONRequest: the JSON object, as a function
\* from the keys present; a field tagged omitempty is left out when it
\* holds its zero value.
Marshal(p) ==
    LET keys == {"key", "radio", "power", "frequency", "mode"}
                \cup (IF p.FrequencyRX # 0 THEN {"frequency_rx"} ELSE {})
                \cup (IF p.ModeRX # "" THEN {"mode_rx"} ELSE {})
    IN  [k \in keys |->
            CASE k = "key"          -> p.Key
              [] k = "radio"        -> p.Radio
              [] k = "power"        -> p.Power
              [] k = "frequency"    -> p.Frequency
              [] k = "mode"         -> p.Mode
              [] k = "frequency_rx" -> p.FrequencyRX
              [] k = "mode_rx"      -> p.ModeRX]

\* http.NewRequest fails when the URL does not parse.
NewRequestFails(url) == url = "::bad"

\* The request postToWavelog hands to client.Do.
NoRequest == [made |-> FALSE]
Request(config, data) ==
    [made |-> TRUE, method |-> "POST",
     url  |-> <<config.WavelogURL, "/api/radio">>,
     body |-> Marshal(Payload(config, data))]

\* What client.Do may come back with: a status code, or a transport error.
HTTPOutcomes == {"200", "500", "error"}

(* ---------------------------- configuration ---------------------------- *)

\* The fields of type ProfileConfig.
Settings ==
    {"WavelogURL", "WavelogKey", "RadioName", "FlrigHost", "FlrigPort",
     "HamlibHost", "HamlibPort", "Interval", "DataSource", "LogLevel"}

IntSettings == {"FlrigPort", "HamlibPort"}

\* defaultConfig in main.
defaultConfig ==
    [WavelogURL |-> "http://localhost/index.php",
     WavelogKey |-> "YOUR_API_KEY",
     RadioName  |-> "RIG",
     FlrigHost  |-> "127.0.0.1",
     FlrigPort  |-> 12345,
     HamlibHost |-> "127.0.0.1",
     HamlibPort |-> 4532,
     Interval   |-> "1s",
     DataSource |-> "flrig",
     LogLevel   |-> "error"]

\* The zero value of a ProfileConfig field.
ZeroValue(s) == IF s \in IntSettings THEN 0 ELSE ""

\* The json tag of a ProfileConfig field.
JSONKey(s) ==
    CASE s = "WavelogURL" -> "wavelog_url"
      [] s = "WavelogKey" -> "wavelog_key"
      [] s = "RadioName"  -> "radio_name"
      [] s = "FlrigHost"  -> "flrig_host"
      [] s = "FlrigPort"  -> "flrig_port"
      [] s = "HamlibHost" -> "hamlib_host"
      [] s = "HamlibPort" -> "hamlib_port"
      [] s = "Interval"   -> "interval"
      [] s = "DataSource" -> "data_source"
      [] s = "LogLevel"   -> "log_level"

\* The flag main registers for a ProfileConfig field.
FlagOf(s) ==
    CASE s = "WavelogURL" -> "wavelog-url"
      [] s = "WavelogKey" -> "wavelog-key"
      [] s = "RadioName"  -> "radio-name"
      [] s = "FlrigHost"  -> "flrig-host"
      [] s = "FlrigPort"  -> "flrig-port"
      [] s = "HamlibHost" -> "hamlib-host"
      [] s = "HamlibPort" -> "hamlib-port"
      [] s = "Interval"   -> "interval"
      [] s = "DataSource" -> "data-source"
      [] s = "LogLevel"   -> "log-level"

\* The value flag.Parse stores for the text given to the flag of field s:
\* an int flag's text is converted.
FlagValue(s, text) ==
    IF s \in IntSettings
    THEN CASE text = "12345" -> 12345
           [] text = "12346" -> 12346
           [] text = "4532"  -> 4532
           [] text = "4533"  -> 4533
    ELSE text

\* strings.ToLower, on the data source names.
ToLower(s) == IF s = "Hamlib" THEN "hamlib" ELSE s

\* Whether time.ParseDuration accepts the text.
ParseDurationOK(s) == s \in {"1s", "1500ms"}

\* Whether logrus.ParseLevel accepts the text.
ParseLevelOK(s) == s \in {"error", "warn", "info", "debug"}

(* The command line: a function from the flags given to their texts.       *)

FlagNames ==
    {"version", "profile", "save-profile", "set-default-profile"}
    \cup {FlagOf(s) : s \in Settings}

\* The texts a command line is taken to give each flag.
FlagChoices(f) ==
    CASE f = "version"             -> {"true"}
      [] f = "profile"             -> {"home", "away"}
      [] f = "save-profile"        -> {"new", "home"}
      [] f = "set-default-profile" -> {"home"}
      [] f = "wavelog-url"         -> {"http://localhost/index.php",
                                       "https://log.example/index.php",
                                       "::bad", ""}
      [] f = "wavelog-key"         -> {"YOUR_API_KEY", "KEY1", ""}
      [] f = "radio-name"          -> {"RIG", "IC-7300"}
      [] f = "flrig-host"          -> {"127.0.0.1", "bad host"}
      [] f = "flrig-port"          -> {"12345", "12346"}
      [] f = "hamlib-host"         -> {"127.0.0.1", "10.0.0.2"}
      [] f = "hamlib-port"         -> {"4532", "4533"}
      [] f = "interval"            -> {"1s", "soon"}
      [] f = "data-source"         -> {"flrig", "hamlib", "Hamlib", "serial"}
      [] f = "log-level"           -> {"error", "debug", "loud"}

NoFlags == [f \in {} |-> ""]

WithFlag(g, f, text) == [x \in DOMAIN g \cup {f} |-> IF x = f THEN text ELSE g[x]]

\* The command lines that give at most n flags.
RECURSIVE CommandLines(_)
CommandLines(n) ==
    IF n = 0 THEN {NoFlags}
    ELSE CommandLines(n - 1)
         \cup {WithFlag(x[1], x[2], x[3]) : x \in
                 {y \in CommandLines(n - 1) \X FlagNames \X
                          UNION {FlagChoices(f) : f \in FlagNames} :
                    y[2] \notin DOMAIN y[1] /\ y[3] \in FlagChoices(y[2])}}

\* The string a flag variable holds after flag.Parse: the text given, or
\* the default the flag was registered with.
Given(args, f) == f \in DOMAIN args
StringFlag(args, f) == IF Given(args, f) THEN args[f] ELSE ""

(* The configuration file: config.json, as a JSON document.                *)

\* The profile records a configuration file is taken to hold: one with
\* every key, as -save-profile writes it, and one that leaves keys out.
FullRecord ==
    [wavelog_url |-> "https://log.example/index.php",
     wavelog_key |-> "KEY1",
     radio_name  |-> "IC-7300",
     flrig_host  |-> "127.0.0.1",
     flrig_port  |-> 12346,
     hamlib_host |-> "10.0.0.2",
     hamlib_port |-> 4533,
     interval    |-> "1500ms",
     data_source |-> "hamlib",
     log_level   |-> "debug"]

PartialRecord ==
    [k \in DOMAIN FullRecord \ {"radio_name", "hamlib_port", "log_level"}
       |-> FullRecord[k]]

StoredRecords == {FullRecord, PartialRecord}

NoProfiles == [n \in {} |-> FullRecord]

\* The "profiles" objects: any of the two names, each with a record.
ProfileMaps ==
    UNION {[names -> StoredRecords] : names \in SUBSET {"default", "home"}}

\* A JSON document of the shape of ConfigFile; either key may be missing.
Documents ==
    [has_default : BOOLEAN, default_profile : {"home"},
     has_profiles : BOOLEAN, profiles : ProfileMaps]

\* The states config.json may be in when the program starts: the config
\* directory cannot be made, there is no file, the file does not decode,
\* or it holds a document.
NoDocument ==
    [has_default |-> FALSE, default_profile |-> "",
     has_profiles |-> FALSE, profiles |-> NoProfiles]

Files ==
    {[state |-> s, doc |-> NoDocument] : s \in {"nodir", "missing", "corrupt"}}
    \cup {[state |-> "ok",
           doc |-> [d EXCEPT
                      !.default_profile = IF d.has_default THEN @ ELSE "",
                      !.profiles = IF d.has_profiles THEN @ ELSE NoProfiles]] :
          d \in Documents}

\* json.Unmarshal of one profile record into a ProfileConfig: a key the
\* record does not hold leaves the field at its zero value.
DecodeProfile(rec) ==
    [s \in Settings |->
        IF JSONKey(s) \in DOMAIN rec THEN rec[JSONKey(s)] ELSE ZeroValue(s)]

\* json.Unmarshal of the document into a ConfigFile; a missing "profiles"
\* key leaves the map nil.
DecodeConfig(doc) ==
    [DefaultProfile |-> IF doc.has_default THEN doc.default_profile ELSE "",
     nilProfiles    |-> ~doc.has_profiles,
     Profiles       |-> [n \in DOMAIN doc.profiles |->
                            DecodeProfile(doc.profiles[n])]]

\* json.MarshalIndent of a ConfigFile: every field of every profile is
\* written; a nil map is written as null.
EncodeProfile(p) ==
    [k \in {JSONKey(s) : s \in Settings} |->
        p[CHOOSE s \in Settings : JSONKey(s) = k]]

EncodeConfig(cfg) ==
    [has_default |-> TRUE, default_profile |-> cfg.DefaultProfile,
     has_profiles |-> ~cfg.nilProfiles,
     profiles |-> [n \in DOMAIN cfg.Profiles |-> EncodeProfile(cfg.Profiles[n])]]

(* -------------------------------- state -------------------------------- *)

VARIABLES
    pc,                   \* where main is
    args,                 \* the command line
    file,                 \* config.json on disk
    cfgFile,              \* main's cfgFile
    profileToUse,         \* main's profileToUse
    currentProfileConfig, \* main's currentProfileConfig
    client,               \* which RadioClient main made: "flrig", "hamlib"
    lastData,             \* main's lastData
    currentData,          \* the poll loop's currentData
    err,                  \* the poll loop's err, from GetData
    rpc,                  \* the exchange with the daemon in this cycle
    req,                  \* the HTTP request postToWavelog is waiting on
    resp,                 \* how the last HTTP request of this cycle ended
    logged,               \* the log calls of the last step
    hadRead,              \* history: a GetData has succeeded in this run
    firstRead,            \* history: this cycle's GetData is the first to succeed
    failedPost,           \* history: the snapshot whose POST failed, until
                          \*   the next GetData that succeeds
    retry                 \* history: this cycle's GetData returned failedPost

vars ==
    <<pc, args, file, cfgFile, profileToUse, currentProfileConfig, client,
      lastData, currentData, err, rpc, req, resp, logged,
      hadRead, firstRead, failedPost, retry>>

configVars == <<args, file, cfgFile, profileToUse, currentProfileConfig, client>>
cycleVars == <<currentData, err, rpc, req, resp>>
historyVars == <<hadRead, firstRead, failedPost, retry>>

LoopPcs == {"sleep", "read", "gate", "post"}

ZeroConfig == [s \in Settings |-> ZeroValue(s)]
NoExchange == [kind |-> "none"]
NoFailedPost == [some |-> FALSE]

\* The state when main starts on command line a with config.json as f.
Start(commandLines, files) ==
    /\ pc = "parse"
    /\ args \in commandLines
    /\ file \in files
    /\ cfgFile = [DefaultProfile |-> "", nilProfiles |-> TRUE, Profiles |-> NoProfiles]
    /\ profileToUse = ""
    /\ currentProfileConfig = ZeroConfig
    /\ client = "none"
    /\ lastData = ZeroRigData
    /\ currentData = ZeroRigData
    /\ err = NoError
    /\ rpc = NoExchange
    /\ req = NoRequest
    /\ resp = "none"
    /\ logged = <<>>
    /\ hadRead = FALSE
    /\ firstRead = FALSE
    /\ failedPost = NoFailedPost
    /\ retry = FALSE

(* ------------------------ main: configuration -------------------------- *)

\* flag.Parse, and -version.
ParseFlags ==
    /\ pc = "parse"
    /\ pc' = IF Given(args, "version") THEN "exit" ELSE "load"
    /\ logged' = <<>>
    /\ UNCHANGED <<configVars, lastData, cycleVars, historyVars>>

\* getConfigPath and loadConfig: the ConfigFile main goes on with.
LoadedConfig(f) ==
    IF f.state = "ok"
    THEN DecodeConfig(f.doc)
    ELSE [DefaultProfile |-> "default", nilProfiles |-> FALSE, Profiles |-> NoProfiles]

LoadConfig ==
    /\ pc = "load"
    /\ IF file.state = "nodir"
       THEN /\ pc' = "fatal"
            /\ logged' = <<LogEntry("fatal", "Could not determine configuration path")>>
            /\ UNCHANGED cfgFile
       ELSE /\ pc' = "select"
            /\ cfgFile' = LoadedConfig(file)
            /\ logged' = IF file.state = "corrupt"
                         THEN <<LogEntry("warn", "Configuration file failed to load")>>
                         ELSE <<>>
    /\ UNCHANGED <<args, file, profileToUse, currentProfileConfig, client,
                   lastData, cycleVars, historyVars>>

\* A choice in which the file's default profile wins over -profile.
ProfileToUse_DefaultFirst(cfg, currentProfileName) ==
    IF cfg.DefaultProfile # "" THEN cfg.DefaultProfile
    ELSE IF currentProfileName # "" THEN currentProfileName
    ELSE "default"

\* The profile name main settles on.
ProfileToUse(cfg, currentProfileName) ==
    IF currentProfileName # "" THEN currentProfileName
    ELSE IF cfg.DefaultProfile # "" THEN cfg.DefaultProfile
    ELSE "default"

\* "Merge configuration (Default -> File -> Flags)": the profile's record
\* if the name has one, else defaultConfig.
MergedProfile(cfg, name) ==
    IF name \in DOMAIN cfg.Profiles THEN cfg.Profiles[name] ELSE defaultConfig

SelectProfile ==
    /\ pc = "select"
    /\ profileToUse' = ProfileToUse(cfgFile, StringFlag(args, "profile"))
    /\ currentProfileConfig' = MergedProfile(cfgFile, profileToUse')
    /\ pc' = "visit"
    /\ logged' = <<>>
    /\ UNCHANGED <<args, file, cfgFile, client, lastData, cycleVars, historyVars>>

\* An override that takes a flag for set when its value is not the default
\* it was registered with.
Override_NonDefault(config, a) ==
    [s \in Settings |->
        IF Given(a, FlagOf(s)) /\ FlagValue(s, a[FlagOf(s)]) # defaultConfig[s]
        THEN FlagValue(s, a[FlagOf(s)])
        ELSE config[s]]

\* flag.Visit: every flag that was set overwrites its field.
Override(config, a) ==
    [s \in Settings |->
        IF Given(a, FlagOf(s)) THEN FlagValue(s, a[FlagOf(s)]) ELSE config[s]]

VisitFlags ==
    /\ pc = "visit"
    /\ currentProfileConfig' = Override(currentProfileConfig, args)
    /\ pc' = "dispatch"
    /\ logged' = <<>>
    /\ UNCHANGED <<args, file, cfgFile, profileToUse, client, lastData,
                   cycleVars, historyVars>>

\* saveConfig: the file is written, or os.WriteFile fails.
SaveConfig(cfg, written) ==
    IF written
    THEN /\ file' = [state |-> "ok", doc |-> EncodeConfig(cfg)]
         /\ pc' = "exit"
         /\ logged' = <<>>
    ELSE /\ file' = file
         /\ pc' = "fatal"
         /\ logged' = <<LogEntry("fatal", "Failed to save configuration file")>>

\* A -set-default-profile that does not look whether the profile exists.
SetDefaultProfile_Unchecked ==
    /\ pc = "dispatch"
    /\ Given(args, "set-default-profile")
    /\ cfgFile' = [cfgFile EXCEPT !.DefaultProfile = args["set-default-profile"]]
    /\ \E written \in BOOLEAN : SaveConfig(cfgFile', written)
    /\ UNCHANGED <<args, profileToUse, currentProfileConfig, client, lastData,
                   cycleVars, historyVars>>

\* -set-default-profile.
SetDefaultProfile ==
    /\ pc = "dispatch"
    /\ Given(args, "set-default-profile")
    /\ LET name == args["set-default-profile"] IN
       IF name \notin DOMAIN cfgFile.Profiles
       THEN /\ pc' = "fatal"
            /\ logged' = <<LogEntry("fatal", "Cannot set default profile")>>
            /\ UNCHANGED <<file, cfgFile>>
       ELSE /\ cfgFile' = [cfgFile EXCEPT !.DefaultProfile = name]
            /\ \E written \in BOOLEAN : SaveConfig(cfgFile', written)
    /\ UNCHANGED <<args, profileToUse, currentProfileConfig, client, lastData,
                   cycleVars, historyVars>>

\* -save-profile.  Storing into a nil map panics.
SaveProfile ==
    /\ pc = "dispatch"
    /\ ~Given(args, "set-default-profile")
    /\ Given(args, "save-profile")
    /\ LET name == args["save-profile"] IN
       IF cfgFile.nilProfiles
       THEN /\ pc' = "panic"
            /\ logged' = <<>>
            /\ UNCHANGED <<file, cfgFile>>
       ELSE /\ cfgFile' =
                 [cfgFile EXCEPT !.Profiles =
                    [n \in DOMAIN cfgFile.Profiles \cup {name} |->
                        IF n = name THEN currentProfileConfig
                        ELSE cfgFile.Profiles[n]]]
            /\ \E written \in BOOLEAN : SaveConfig(cfgFile', written)
    /\ UNCHANGED <<args, profileToUse, currentProfileConfig, client, lastData,
                   cycleVars, historyVars>>

\* The checks without the comparison against the placeholder key.
ValidationFailure_NoPlaceholder(config) ==
    IF config.WavelogKey = ""
    THEN "Wavelog API key is required"
    ELSE IF config.WavelogURL = ""
    THEN "Wavelog URL is required"
    ELSE IF ToLower(config.DataSource) \notin {"flrig", "hamlib"}
    THEN "Invalid data source specified"
    ELSE IF ~ParseDurationOK(config.Interval)
    THEN "Invalid interval duration format"
    ELSE ""

\* The checks between setupLogging and the poll loop: the fatal message,
\* or "" when main goes on to poll.
ValidationFailure(config) ==
    IF config.WavelogKey = "" \/ config.WavelogKey = defaultConfig.WavelogKey
    THEN "Wavelog API key is required"
    ELSE IF config.WavelogURL = ""
    THEN "Wavelog URL is required"
    ELSE IF ToLower(config.DataSource) \notin {"flrig", "hamlib"}
    THEN "Invalid data source specified"
    ELSE IF ~ParseDurationOK(config.Interval)
    THEN "Invalid interval duration format"
    ELSE ""

\* setupLogging.
SetupLogging(levelStr) ==
    IF ParseLevelOK(levelStr) THEN <<>>
    ELSE <<LogEntry("error", "Invalid log level")>>

Validate ==
    /\ pc = "dispatch"
    /\ ~Given(args, "set-default-profile")
    /\ ~Given(args, "save-profile")
    /\ LET failure == ValidationFailure(currentProfileConfig) IN
       IF failure # ""
       THEN /\ pc' = "fatal"
            /\ logged' = SetupLogging(currentProfileConfig.LogLevel)
                         \o <<LogEntry("fatal", failure)>>
            /\ UNCHANGED <<client, lastData>>
       ELSE /\ pc' = "sleep"
            /\ client' = ToLower(currentProfileConfig.DataSource)
            /\ lastData' = ZeroRigData
            /\ logged' = SetupLogging(currentProfileConfig.LogLevel)
                         \o <<LogEntry("info", "Using client"),
                              LogEntry("info", "Starting WaveLogGoat polling")>>
    /\ UNCHANGED <<args, file, cfgFile, profileToUse, currentProfileConfig,
                   cycleVars, historyVars>>

(* -------------------------- main: the poll loop ------------------------ *)

\* time.Sleep(intervalDuration) returns: a cycle starts.
Sleep ==
    /\ pc = "sleep"
    /\ pc' = "read"
    /\ resp' = "none"
    /\ logged' = <<>>
    /\ UNCHANGED <<configVars, lastData, currentData, err, rpc, req, historyVars>>

\* No call is made: xmlrpc.NewClient failed.
NoCalls ==
    [vfo |-> NotCalled, mode |-> NotCalled, power |-> NotCalled,
     split |-> NotCalled, vfoB |-> NotCalled, modeB |-> NotCalled]

\* A GetData that leaves ModeB empty when rig.get_modeB fails.
FlrigGetData_ModeBEmpty(host, r) ==
    IF NewClientFails(host)
    THEN [data |-> ZeroRigData, err |-> Err(FALSE, <<"parse ", host>>),
          logs |-> <<>>]
    ELSE IF FlrigCalls(r).err.isErr \/ r.modeB.st # "fail"
    THEN FlrigCalls(r)
    ELSE [FlrigCalls(r) EXCEPT !.data.ModeB = ""]

\* (f *FlrigClient) GetData.
FlrigGetData(host, r) ==
    IF NewClientFails(host)
    THEN [data |-> ZeroRigData, err |-> Err(FALSE, <<"parse ", host>>),
          logs |-> <<>>]
    ELSE FlrigCalls(r)

\* A hamlib read that gives up when the P exchange fails.
ClientGetData_PowerMandatory(x) ==
    IF x.kind = "flrig"
    THEN FlrigGetData(currentProfileConfig.FlrigHost, x.calls)
    ELSE IF ~HamlibCalls(x.calls).err.isErr /\ x.calls.P.st # "ok"
    THEN [data |-> ZeroRigData,
          err |-> Wrap("failed to read power response from hamlib: ",
                       NetFailure("reset")),
          logs |-> <<>>]
    ELSE HamlibCalls(x.calls)

\* client.GetData() of the client main made, for exchange x.
ClientGetData(x) ==
    IF x.kind = "flrig"
    THEN FlrigGetData(currentProfileConfig.FlrigHost, x.calls)
    ELSE HamlibCalls(x.calls)

\* The exchanges the client can have with its daemon in one read, out of
\* the given families.
Exchanges(flrigEx, hamlibEx) ==
    IF client = "flrig"
    THEN {[kind |-> "flrig", calls |-> c] :
            c \in IF NewClientFails(currentProfileConfig.FlrigHost)
                  THEN {NoCalls} ELSE flrigEx}
    ELSE {[kind |-> "hamlib", calls |-> c] : c \in hamlibEx}

GetData(flrigEx, hamlibEx) ==
    /\ pc = "read"
    /\ \E x \in Exchanges(flrigEx, hamlibEx) :
         LET res == ClientGetData(x)
             ok  == ~res.err.isErr
         IN  /\ rpc' = x
             /\ currentData' = res.data
             /\ err' = res.err
             /\ logged' = res.logs
             /\ firstRead' = (ok /\ ~hadRead)
             /\ hadRead' = (hadRead \/ ok)
             /\ retry' = (ok /\ failedPost.some /\ failedPost.data = res.data)
             /\ failedPost' = IF ok THEN NoFailedPost ELSE failedPost
    /\ pc' = "gate"
    /\ UNCHANGED <<configVars, lastData, req, resp>>

\* The errors main reports at debug level only.
Transient(e) ==
    \/ e.timeout
    \/ Contains(e, "connection refused")
    \/ Contains(e, "dial tcp")

\* A comparison that leaves the power out.
RigDataEq_NoPower(a, b) ==
    /\ a.FreqVFOA = b.FreqVFOA
    /\ a.FreqVFOB = b.FreqVFOB
    /\ a.Mode = b.Mode
    /\ a.ModeB = b.ModeB
    /\ a.Split = b.Split

\* currentData == lastData, on two RigData values.
RigDataEq(a, b) == a = b

\* A loop that sleeps at the end of its body only when a POST was made, so
\* that a cycle without one is followed by the next read at once.
Continue_NoSleep ==
    /\ pc' = IF pc = "post" THEN "sleep" ELSE "read"
    /\ currentData' = ZeroRigData
    /\ err' = NoError
    /\ rpc' = NoExchange
    /\ req' = NoRequest

\* A `return` where the loop has `continue`.
Continue_Return ==
    /\ pc' = "exit"
    /\ currentData' = ZeroRigData
    /\ err' = NoError
    /\ rpc' = NoExchange
    /\ req' = NoRequest

\* `continue`: the variables of the loop body go out of scope.
Continue ==
    /\ pc' = "sleep"
    /\ currentData' = ZeroRigData
    /\ err' = NoError
    /\ rpc' = NoExchange
    /\ req' = NoRequest

\* From the return of GetData to the `continue`, or to the request that
\* postToWavelog hands to client.Do.
Gate ==
    /\ pc = "gate"
    /\ IF err.isErr
       THEN /\ logged' = <<LogEntry(IF Transient(err) THEN "debug" ELSE "error",
                                    "error fetching radio data")>>
            /\ Continue
       ELSE IF RigDataEq(currentData, lastData)
       THEN /\ logged' = <<LogEntry("debug", "Radio data unchanged")>>
            /\ Continue
       ELSE /\ pc' = "post"
            /\ req' = IF NewRequestFails(currentProfileConfig.WavelogURL)
                      THEN NoRequest
                      ELSE Request(currentProfileConfig, currentData)
            /\ logged' = <<LogEntry("info", "Radio state changed"),
                           LogEntry("info", "Sending")>>
            /\ UNCHANGED <<currentData, err, rpc>>
    /\ UNCHANGED <<configVars, lastData, resp, historyVars>>

\* A baseline that is advanced whatever postToWavelog returned.
NextLastData_Always(outcome, current, last) == current

\* A baseline that is advanced unless client.Do itself failed: the status
\* code is not looked at.
NextLastData_AnyStatus(outcome, current, last) ==
    IF outcome \in {"200", "500"} THEN current ELSE last

\* A baseline that is never advanced.
NextLastData_Never(outcome, current, last) == last

\* lastData after postToWavelog has returned with the given outcome.
NextLastData(outcome, current, last) ==
    IF outcome = "200" THEN current ELSE last

\* postToWavelog returns, and main handles its result.
PostReturn ==
    /\ pc = "post"
    /\ \E outcome \in IF req.made THEN HTTPOutcomes ELSE {"norequest"} :
         /\ resp' = outcome
         /\ lastData' = NextLastData(outcome, currentData, lastData)
         /\ logged' = IF outcome = "200"
                      THEN <<LogEntry("debug", "Successfully updated Wavelog")>>
                      ELSE <<LogEntry("error", "Error posting to Wavelog")>>
         /\ failedPost' = IF outcome = "200" THEN NoFailedPost
                          ELSE [some |-> TRUE, data |-> currentData]
    /\ Continue
    /\ UNCHANGED <<configVars, hadRead, firstRead, retry>>

(* ---------------------------- specifications --------------------------- *)

\* A few exchanges of each daemon, for the runs that vary the configuration.
FewFlrigExchanges ==
    {x \in FlrigExchanges :
        /\ x.vfo \in {CallFailed("refused"), Reply("1.5")}
        /\ x.mode \in {NotCalled, Reply("USB")}
        /\ x.power \in {NotCalled, Reply(5)}
        /\ x.split \in {NotCalled, Reply(0)}
        /\ x.vfoB \in {NotCalled, Reply("1.5")}
        /\ x.modeB \in {NotCalled, Reply("USB")}}

FewHamlibExchanges ==
    {x \in HamlibExchanges :
        /\ x.dial.st = "ok"
        /\ x.f \in {ReadFailed, Line("1.5")}
        /\ x.m \in {NotCalled, Line("USB 2400")}
        /\ x.P \in {NotCalled, Line("0")}}

\* The whole program, from every command line of at most MaxFlags flags and
\* every state of the configuration file.
Init == Start(CommandLines(MaxFlags), Files)

Next ==
    \/ ParseFlags
    \/ LoadConfig
    \/ SelectProfile
    \/ VisitFlags
    \/ SetDefaultProfile
    \/ SaveProfile
    \/ Validate
    \/ Sleep
    \/ GetData(FewFlrigExchanges, FewHamlibExchanges)
    \/ Gate
    \/ PostReturn

Spec == Init /\ [][Next]_vars

\* The program run to poll: a stored profile "home" that is the default,
\* the data source chosen on the command line, every hamlib exchange, and
\* every flrig exchange in which the four calls that GetData tolerates the
\* failure of are answered (so every RigData flrig can return is read).
HomeFile ==
    [state |-> "ok",
     doc |-> [has_default |-> TRUE, default_profile |-> "home",
              has_profiles |-> TRUE,
              profiles |-> [n \in {"home"} |-> FullRecord]]]

PollCommandLines ==
    {g \in CommandLines(1) : DOMAIN g \subseteq {"data-source"}}

PollInit == Start(PollCommandLines, {HomeFile})

PollFlrigExchanges ==
    {x \in FlrigExchanges :
        \A c \in {"power", "split", "vfoB", "modeB"} : x[c].st # "fail"}

PollNext ==
    \/ ParseFlags
    \/ LoadConfig
    \/ SelectProfile
    \/ VisitFlags
    \/ Validate
    \/ Sleep
    \/ GetData(PollFlrigExchanges, HamlibExchanges)
    \/ Gate
    \/ PostReturn

PollSpec == PollInit /\ [][PollNext]_vars

\* The same runs, with the flrig exchanges in which each of the four calls
\* that GetData tolerates the failure of either fails or answers a value
\* other than its substitute (so that a substitute is told from an answer),
\* the VFO A text is not "0" and the mode is not "".
ReadFlrigExchanges ==
    {x \in FlrigExchanges :
        /\ x.vfo # Reply("0")
        /\ x.mode # Reply("")
        /\ x.power # Reply(0)
        /\ x.split # Reply(0)
        /\ x.vfoB # Reply("1.5")
        /\ x.modeB # Reply("USB")}

ReadNext ==
    \/ ParseFlags
    \/ LoadConfig
    \/ SelectProfile
    \/ VisitFlags
    \/ Validate
    \/ Sleep
    \/ GetData(ReadFlrigExchanges, HamlibExchanges)
    \/ Gate
    \/ PostReturn

ReadSpec == PollInit /\ [][ReadNext]_vars

\* The same runs with a radio that is in one of a few states (not split, or
\* split; on one of two frequencies) or cannot be reached.  time.Sleep
\* returns, the comparison is a computation, and client.Do returns within
\* the Timeout of the http.Client, so these steps are taken when they can
\* be; a read has no deadline, so nothing is assumed of GetData.
ConvergeFlrigExchanges ==
    {x \in ReadFlrigExchanges :
        /\ x.vfo \in {CallFailed("refused"), Reply("1.5")}
        /\ x.mode \in {NotCalled, Reply("USB")}
        /\ x.power \in {NotCalled, Reply(5)}
        /\ x.vfoB \in {NotCalled, CallFailed("fault")}
        /\ x.modeB \in {NotCalled, CallFailed("fault")}}

ConvergeHamlibExchanges ==
    {x \in HamlibExchanges :
        /\ x.dial.st = "ok"
        /\ x.f \in {ReadFailed, Line("0"), Line("1.5")}
        /\ x.m \in {NotCalled, Line("USB 2400")}
        /\ x.P \in {NotCalled, Line("0")}}

ConvergeNext ==
    \/ ParseFlags
    \/ LoadConfig
    \/ SelectProfile
    \/ VisitFlags
    \/ Validate
    \/ Sleep
    \/ GetData(ConvergeFlrigExchanges, ConvergeHamlibExchanges)
    \/ Gate
    \/ PostReturn

ConvergeSpec ==
    /\ PollInit
    /\ [][ConvergeNext]_vars
    /\ WF_vars(Sleep)
    /\ WF_vars(Gate)
    /\ WF_vars(PostReturn)

(* ------------------------------ properties ----------------------------- *)

RigDataFields == {"FreqVFOA", "FreqVFOB", "Mode", "ModeB", "Split", "Power"}

\* The fields in which two snapshots differ.
DifferingFields(a, b) == {f \in RigDataFields : a[f] # b[f]}

\* n is f (in tenths) truncated to a whole number, for f >= 0.
TruncatedTo(f, n) == n * 10 <= f /\ f < (n + 1) * 10

\* C1: in a poll cycle postToWavelog is called if and only if GetData
\* succeeded and the snapshot it returned differs from lastData in at least
\* one of the six fields; postToWavelog is called from nowhere else.
ForwardStep ==
    /\ pc = "gate" =>
          (pc' = "post" <=>
              ~err.isErr /\ DifferingFields(currentData, lastData) # {})
    /\ pc' = "post" => pc = "gate"

C1_ForwardIffChanged == [][ForwardStep]_vars

\* C1 happens: a snapshot that differs from a forwarded baseline in exactly
\* one field is on its way to Wavelog.
C1_Witness ==
    /\ pc = "post"
    /\ lastData # ZeroRigData
    /\ Cardinality(DifferingFields(currentData, lastData)) = 1

\* C2: lastData changes only in the step in which postToWavelog returns
\* nil (status 200), and then becomes the snapshot that was posted; every
\* other step, and every other outcome of the POST, leaves it as it was.
BaselineStep ==
    /\ lastData' # lastData =>
          pc = "post" /\ req.made /\ resp' = "200" /\ lastData' = currentData
    /\ pc = "post" /\ resp' = "200" => lastData' = currentData

C2_BaselineOnlyOnSuccess == [][BaselineStep]_vars

\* C2 happens: a POST has just succeeded and the baseline is the snapshot
\* that the request carried.
C2_Witness ==
    /\ pc = "sleep"
    /\ resp = "200"
    /\ lastData # ZeroRigData
    /\ hadRead

\* C3: when the POST for a snapshot has failed and the next GetData that
\* succeeds returns that snapshot again, postToWavelog is called for it
\* again, however often that has happened before.
RetryStep ==
    pc = "gate" /\ retry =>
        pc' = "post" /\ req' = Request(currentProfileConfig, currentData)

C3_RetryAfterFailedPost == [][RetryStep]_vars

\* C3 happens: the snapshot whose POST failed was read again and is being
\* posted again.
C3_Witness ==
    /\ pc = "post"
    /\ retry
    /\ req.made

\* C4: the first successful read of a run is always forwarded.
FirstReadStep == pc = "gate" /\ firstRead => pc' = "post"

C4_FirstReadForwarded == [][FirstReadStep]_vars

\* C5: for a snapshot with Split = 0 the request body has exactly the keys
\* key, radio, power, frequency and mode, with the configured key and radio
\* name, the snapshot's power, FreqVFOA truncated, and Mode.
C5_BodyWithoutSplit ==
    pc = "post" /\ req.made /\ currentData.Split = 0 =>
        /\ DOMAIN req.body = {"key", "radio", "power", "frequency", "mode"}
        /\ req.body["key"] = currentProfileConfig.WavelogKey
        /\ req.body["radio"] = currentProfileConfig.RadioName
        /\ req.body["power"] = currentData.Power
        /\ TruncatedTo(currentData.FreqVFOA, req.body["frequency"])
        /\ req.body["mode"] = currentData.Mode

\* C5 happens: a request for a snapshot with Split = 0 whose FreqVFOA has a
\* fraction and whose VFO B differs from VFO A in frequency and mode.
C5_Witness ==
    /\ pc = "post"
    /\ req.made
    /\ currentData.Split = 0
    /\ currentData.FreqVFOA = 15
    /\ currentData.FreqVFOB # currentData.FreqVFOA
    /\ currentData.ModeB # currentData.Mode
    /\ req.body["frequency"] = 1

\* C6: for a snapshot with Split # 0 the request body has frequency =
\* FreqVFOB truncated and mode = ModeB, and holds both frequency_rx =
\* FreqVFOA truncated and mode_rx = Mode; without split it holds neither.
C6_BodyWithSplit ==
    pc = "post" /\ req.made =>
        IF currentData.Split # 0
        THEN /\ TruncatedTo(currentData.FreqVFOB, req.body["frequency"])
             /\ req.body["mode"] = currentData.ModeB
             /\ {"frequency_rx", "mode_rx"} \subseteq DOMAIN req.body
             /\ TruncatedTo(currentData.FreqVFOA, req.body["frequency_rx"])
             /\ req.body["mode_rx"] = currentData.Mode
        ELSE {"frequency_rx", "mode_rx"} \cap DOMAIN req.body = {}

\* The settings whose flag was given on the command line.
Supplied == {s \in Settings : FlagOf(s) \in DOMAIN args}

\* C7: flag.Visit leaves every setting whose flag was given at the value
\* given, and every other setting at the value it had after the merge; the
\* configuration main goes on with, and polls with, holds the given values.
OverrideStep ==
    pc = "visit" =>
        \A s \in Settings :
            currentProfileConfig'[s] =
                IF s \in Supplied THEN FlagValue(s, args[FlagOf(s)])
                ELSE currentProfileConfig[s]

C7_ExplicitFlagsOverride ==
    /\ [][OverrideStep]_vars
    /\ [](pc \in LoopPcs \cup {"dispatch"} =>
            \A s \in Supplied :
                currentProfileConfig[s] = FlagValue(s, args[FlagOf(s)]))

\* C7 happens: -radio-name was given its default while the selected profile
\* stores another name; the default given wins, and the key, not given,
\* is still the profile's.
C7_Witness ==
    /\ pc = "dispatch"
    /\ Supplied = {"RadioName"}
    /\ args["radio-name"] = defaultConfig.RadioName
    /\ profileToUse \in DOMAIN cfgFile.Profiles
    /\ cfgFile.Profiles[profileToUse].RadioName = "IC-7300"
    /\ currentProfileConfig.RadioName = defaultConfig.RadioName
    /\ currentProfileConfig.WavelogKey = "KEY1"

\* C8: when the selected profile is stored in the file, each setting of the
\* merged configuration is the stored record's value where the record has
\* the setting, and the built-in default where it has not.
C8_ProfileMergedFieldByField ==
    pc = "visit" /\ file.state = "ok" /\ profileToUse \in DOMAIN file.doc.profiles =>
        LET record == file.doc.profiles[profileToUse] IN
        \A s \in Settings :
            currentProfileConfig[s] =
                IF JSONKey(s) \in DOMAIN record THEN record[JSONKey(s)]
                ELSE defaultConfig[s]

\* The configuration the checks let through.
ValidConfig(config) ==
    /\ config.WavelogKey \notin {"", "YOUR_API_KEY"}
    /\ config.WavelogURL # ""
    /\ config.DataSource \in {"flrig", "hamlib", "Hamlib"}
    /\ config.Interval \in {"1s", "1500ms"}

\* The run is one that polls: neither -set-default-profile nor
\* -save-profile was given.
PollRun == DOMAIN args \cap {"set-default-profile", "save-profile"} = {}

\* C9: the poll loop is only ever in progress with a configuration that
\* has a key other than "" and the placeholder, a URL, one of the two data
\* sources and an interval that parses; a run that is to poll with any
\* other configuration ends in log.Fatalf, from which nothing follows, and
\* has made no read and no POST.
ValidationStep ==
    /\ pc = "dispatch" /\ PollRun /\ ~ValidConfig(currentProfileConfig)
          => pc' = "fatal"
    /\ pc # "fatal"

NothingBeforeFatal ==
    pc = "fatal" => ~hadRead /\ rpc = NoExchange /\ req = NoRequest
                    /\ resp = "none"

C9_ValidatedBeforeLoop ==
    /\ [](pc \in LoopPcs => ValidConfig(currentProfileConfig))
    /\ []NothingBeforeFatal
    /\ [][ValidationStep]_vars

\* C9 happens: a run that was to poll has stopped on the placeholder key,
\* everything else being in order.
C9_Witness ==
    /\ pc = "fatal"
    /\ PollRun
    /\ file.state # "nodir"
    /\ currentProfileConfig.WavelogKey = "YOUR_API_KEY"
    /\ ValidConfig([currentProfileConfig EXCEPT !.WavelogKey = "KEY1"])

\* C10: once in the poll loop, main stays in it: every step leads to
\* another position of the loop, a cycle that has read ends by going back
\* to sleep (with or without a POST in between), and at every position
\* of the loop a next step is possible.
LoopStep ==
    pc \in LoopPcs =>
        /\ pc' \in LoopPcs
        /\ pc = "gate" => pc' \in {"sleep", "post"}
        /\ pc = "post" => pc' = "sleep"

C10_LoopNeverEnds ==
    /\ [][LoopStep]_vars
    /\ [](pc \in LoopPcs => ENABLED PollNext)

\* C10 happens: a cycle has ended in a failed delivery, after an earlier
\* successful one, and main is asleep again.
C10_Witness ==
    /\ pc = "sleep"
    /\ resp \in {"500", "error"}
    /\ lastData # ZeroRigData
    /\ failedPost.some

\* The VFO A text answered is one strconv.ParseFloat accepts.
Numeric(text) == text \in {"0", "1.5"}

\* C11: a flrig read fails if and only if the client cannot be created,
\* rig.get_vfo fails, its text is not a number, or rig.get_mode fails.
C11_FlrigFailsIffMandatory ==
    pc = "gate" /\ rpc.kind = "flrig" =>
        (err.isErr <=>
            \/ NewClientFails(currentProfileConfig.FlrigHost)
            \/ rpc.calls.vfo.st = "fail"
            \/ (rpc.calls.vfo.st = "ok" /\ ~Numeric(rpc.calls.vfo.v))
            \/ rpc.calls.mode.st = "fail")

\* The number (in tenths) a frequency or power text stands for.
TextValue(text) == IF text = "1.5" THEN 15 ELSE 0

\* C12: in a flrig read that succeeds, the snapshot holds what the daemon
\* answered, except that Power is 0 when rig.get_power failed, Split is 0
\* when rig.get_split failed, FreqVFOB is FreqVFOA when rig.get_vfoB
\* failed, and ModeB is Mode when rig.get_modeB failed.
C12_FlrigSubstitutes ==
    pc = "gate" /\ rpc.kind = "flrig" /\ ~err.isErr =>
        LET c == rpc.calls IN
        /\ currentData.FreqVFOA = TextValue(c.vfo.v)
        /\ currentData.Mode = c.mode.v
        /\ currentData.Power =
              IF c.power.st = "fail" THEN 0 ELSE c.power.v * 10
        /\ currentData.Split =
              IF c.split.st = "fail" THEN 0 ELSE c.split.v
        /\ currentData.FreqVFOB =
              IF c.vfoB.st = "fail" THEN currentData.FreqVFOA
              ELSE TextValue(c.vfoB.v)
        /\ currentData.ModeB =
              IF c.modeB.st = "fail" THEN currentData.Mode ELSE c.modeB.v

\* C12 happens: a read in which rig.get_vfoB and rig.get_modeB failed and
\* the other two calls were answered has produced a snapshot whose VFO B
\* mirrors VFO A.
C12_Witness ==
    /\ pc = "gate"
    /\ rpc.kind = "flrig"
    /\ ~err.isErr
    /\ rpc.calls.vfoB.st = "fail"
    /\ rpc.calls.modeB.st = "fail"
    /\ rpc.calls.power.st = "ok"
    /\ rpc.calls.split.st = "ok"
    /\ currentData.FreqVFOB = 15
    /\ currentData.ModeB = "USB"
    /\ currentData.Split = 1

\* The first whitespace-separated token of an m response.
FirstToken(line) ==
    CASE line = "USB 2400" -> "USB"
      [] line = "CW 500"   -> "CW"
      [] OTHER             -> ""

\* C13: a snapshot from a hamlib read that succeeded has Split = 0,
\* FreqVFOB = FreqVFOA, and Mode = ModeB = the first token of the m
\* response; a request built while the hamlib client is in use holds
\* neither frequency_rx nor mode_rx.
C13_HamlibNeverSplit ==
    /\ pc \in {"gate", "post"} /\ rpc.kind = "hamlib" /\ ~err.isErr =>
          /\ currentData.Split = 0
          /\ currentData.FreqVFOB = currentData.FreqVFOA
          /\ currentData.Mode = FirstToken(rpc.calls.m.v)
          /\ currentData.ModeB = FirstToken(rpc.calls.m.v)
    /\ client = "hamlib" /\ req.made =>
          {"frequency_rx", "mode_rx"} \cap DOMAIN req.body = {}

\* C13 happens: a hamlib snapshot read from "CW 500" is being posted.
C13_Witness ==
    /\ pc = "post"
    /\ rpc.kind = "hamlib"
    /\ rpc.calls.m = Line("CW 500")
    /\ req.made
    /\ currentData.Mode = "CW"
    /\ currentData.FreqVFOA = 15
    /\ req.body["mode"] = "CW"

\* C14: a hamlib read asks m only after the f response was read and P only
\* after the m response was read; it fails if and only if the dial fails,
\* sending or reading f or m fails, the f response is not a number, or the
\* m response has no token; when it succeeds, Power is the number answered
\* to P, and 0 when P could not be sent, read or parsed.
C14_HamlibFailsIffMandatory ==
    pc = "gate" /\ rpc.kind = "hamlib" =>
        LET c == rpc.calls IN
        /\ c.f.st # "none" => c.dial.st = "ok"
        /\ c.m.st # "none" => c.f.st = "ok"
        /\ c.P.st # "none" => c.m.st = "ok"
        /\ err.isErr <=>
              \/ c.dial.st = "fail"
              \/ c.f.st \in {"sendfail", "readfail"}
              \/ (c.f.st = "ok" /\ ~Numeric(c.f.v))
              \/ c.m.st \in {"sendfail", "readfail"}
              \/ (c.m.st = "ok" /\ FirstToken(c.m.v) = "")
        /\ ~err.isErr =>
              /\ c.P.st # "none"
              /\ currentData.Power =
                    IF c.P.st = "ok" /\ Numeric(c.P.v) THEN TextValue(c.P.v)
                    ELSE 0

\* C14 happens: a hamlib read whose P response could not be read has
\* succeeded with Power 0.
C14_Witness ==
    /\ pc = "gate"
    /\ rpc.kind = "hamlib"
    /\ ~err.isErr
    /\ rpc.calls.P = ReadFailed
    /\ currentData.FreqVFOA = 15
    /\ currentData.Power = 0

\* The read failed because the daemon could not be reached: a refused or
\* timed-out connection.
NotAvailable(x) ==
    IF x.kind = "flrig"
    THEN \/ x.calls.vfo \in {CallFailed("refused"), CallFailed("timeout")}
         \/ x.calls.mode \in {CallFailed("refused"), CallFailed("timeout")}
    ELSE x.calls.dial.st = "fail"

\* The read failed because a mandatory answer was malformed.
Malformed(x) ==
    IF x.kind = "flrig"
    THEN x.calls.vfo.st = "ok" /\ ~Numeric(x.calls.vfo.v)
    ELSE \/ (x.calls.f.st = "ok" /\ ~Numeric(x.calls.f.v))
         \/ (x.calls.m.st = "ok" /\ FirstToken(x.calls.m.v) = "")

ClassifyStep ==
    pc = "gate" /\ err.isErr =>
        /\ pc' = "sleep"
        /\ lastData' = lastData
        /\ Len(logged') = 1
        /\ NotAvailable(rpc) => logged'[1].level = "debug"
        /\ Malformed(rpc) => logged'[1].level = "error"

\* C15: a read that failed because the daemon could not be reached is
\* logged at debug level, one that failed on a malformed mandatory answer
\* at error level, whatever the answer's text; either way the cycle ends
\* without a POST and with the baseline as it was.
C15_FailureSeverity == [][ClassifyStep]_vars

\* What config.json holds when main starts, as far as it can be read: the
\* default profile name recorded, and the names that have a record.
StoredDefault ==
    IF file.state = "ok"
    THEN (IF file.doc.has_default THEN file.doc.default_profile ELSE "")
    ELSE "default"

StoredNames == IF file.state = "ok" THEN DOMAIN file.doc.profiles ELSE {}

\* C16: the profile main uses is the one named by -profile if given, else
\* the default profile name the file records, else "default"; when that
\* name has no stored record, the configuration before the flags are
\* applied is defaultConfig in every field.
C16_ProfileSelection ==
    pc = "visit" =>
        /\ profileToUse =
              IF "profile" \in DOMAIN args THEN args["profile"]
              ELSE IF StoredDefault # "" THEN StoredDefault
              ELSE "default"
        /\ profileToUse \notin StoredNames =>
              \A s \in Settings : currentProfileConfig[s] = defaultConfig[s]

\* C16 happens: -profile names a profile the file does not hold, while the
\* file records another default profile that it does hold; the defaults
\* stand.
C16_Witness ==
    /\ pc = "visit"
    /\ "profile" \in DOMAIN args
    /\ args["profile"] = "away"
    /\ StoredDefault = "home"
    /\ "home" \in StoredNames
    /\ profileToUse = "away"
    /\ currentProfileConfig = defaultConfig

OrderStep ==
    /\ pc' = "read" => pc = "sleep"
    /\ pc' = "gate" => pc = "read"
    /\ pc' = "post" => pc = "gate" /\ ~err.isErr /\ rpc # NoExchange
    /\ pc' = "sleep" => pc \in {"dispatch", "gate", "post"}
    /\ rpc' # NoExchange /\ rpc' # rpc =>
          pc = "read" /\ rpc = NoExchange /\ req = NoRequest
    /\ req'.made /\ req' # req => pc = "gate" /\ ~req.made

NothingInProgress ==
    pc \in {"sleep", "read"} => rpc = NoExchange /\ req = NoRequest

\* C17: a read starts only from the sleep that opens its cycle, with no
\* read and no POST of an earlier cycle outstanding; the comparison follows
\* the read, a POST follows only a comparison of a read that succeeded,
\* and a cycle makes at most one request.
C17_SequentialCycles == [][OrderStep]_vars /\ []NothingInProgress

\* C17 happens: in a cycle after the first successful delivery, a read has
\* succeeded and its request is outstanding.
C17_Witness ==
    /\ pc = "post"
    /\ req.made
    /\ rpc # NoExchange
    /\ ~firstRead
    /\ lastData # ZeroRigData
    /\ resp = "none"

\* C18: a request is made only when its body differs from the body of the
\* last successful one, which was built from the snapshot that lastData
\* holds since.
C18_NoRedundantDelivery ==
    pc = "post" /\ req.made /\ lastData # ZeroRigData =>
        req.body # Request(currentProfileConfig, lastData).body

\* The snapshots the radio of ConvergeSpec can be read as.
ConvergeSnapshots ==
    {FlrigCalls(c).data : c \in {x \in ConvergeFlrigExchanges : x.vfo.st = "ok"}}
    \cup {HamlibCalls(c).data : c \in {x \in ConvergeHamlibExchanges : x.f.st = "ok"}}

\* C19: for every snapshot S, if from some point on every read that
\* succeeds returns S, reads succeed again and again, and POSTs, as long
\* as they are made, succeed again and again, then from some point on
\* lastData is S and no POST is made.
C19_Convergence ==
    \A S \in ConvergeSnapshots :
        (/\ <>[](pc = "gate" /\ ~err.isErr => currentData = S)
         /\ []<>(pc = "gate" /\ ~err.isErr)
         /\ ([]<>(pc = "post") => []<>(pc = "sleep" /\ resp = "200")))
        => <>[](lastData = S /\ pc # "post")

\* C19 happens: after an earlier delivery of another snapshot, a read
\* returns what the baseline already holds.
C19_Witness ==
    /\ pc = "gate"
    /\ ~err.isErr
    /\ ~firstRead
    /\ hadRead
    /\ lastData # ZeroRigData
    /\ currentData = lastData

\* The profile records of a file, as loadConfig reads them.
StoredProfiles(f) ==
    IF f.state = "ok"
    THEN [n \in DOMAIN f.doc.profiles |-> DecodeProfile(f.doc.profiles[n])]
    ELSE NoProfiles

SetDefaultStep ==
    pc = "dispatch" /\ "set-default-profile" \in DOMAIN args =>
        LET N == args["set-default-profile"]
            exists == N \in DOMAIN StoredProfiles(file)
        IN  /\ pc' \in {"exit", "fatal"}
            /\ ~exists => pc' = "fatal" /\ file' = file
            /\ file' # file =>
                  /\ exists
                  /\ pc' = "exit"
                  /\ StoredProfiles(file') = StoredProfiles(file)
            /\ pc' = "exit" =>
                  /\ file'.state = "ok"
                  /\ file'.doc.has_default
                  /\ file'.doc.default_profile = N
            /\ pc' = "fatal" => file' = file

\* With -set-default-profile, the file is written in no other step.
OnlySetDefaultWrites ==
    "set-default-profile" \in DOMAIN args /\ file' # file => pc = "dispatch"

NoPollAfterSetDefault ==
    "set-default-profile" \in DOMAIN args =>
        pc \notin LoopPcs /\ ~hadRead /\ req = NoRequest

\* C20: -set-default-profile N changes config.json only when the file
\* holds a profile N; the file then records N as the default profile and
\* holds the same profiles as before.  When it holds no profile N main
\* stops in log.Fatalf with the file as it was (as it does when the file
\* cannot be written).  Either way main ends without polling, and a
\* -save-profile of the same run stores nothing.
C20_SetDefaultProfile ==
    /\ [][SetDefaultStep]_vars
    /\ [][OnlySetDefaultWrites]_vars
    /\ []NoPollAfterSetDefault
    /\ [][pc # "exit"]_vars

\* C20 happens: a run with -set-default-profile home and -save-profile new
\* has ended with home recorded as the default and no profile new stored.
C20_Witness ==
    /\ pc = "exit"
    /\ "set-default-profile" \in DOMAIN args
    /\ "save-profile" \in DOMAIN args
    /\ args["save-profile"] = "new"
    /\ file.state = "ok"
    /\ file.doc.default_profile = "home"
    /\ DOMAIN file.doc.profiles = {"default", "home"}

\* The default profile name a file gives a run that has no -profile.
EffectiveDefault(f) ==
    IF f.state = "ok" /\ f.doc.has_default /\ f.doc.default_profile # ""
    THEN f.doc.default_profile
    ELSE "default"

\* The configuration of a run on command line a and file f: the record of
\* the selected profile or defaultConfig, then the flags that were set.
RunConfiguration(a, f) ==
    Override(MergedProfile(LoadedConfig(f),
                           ProfileToUse(LoadedConfig(f), StringFlag(a, "profile"))),
             a)

SaveProfileStep ==
    /\ pc = "dispatch"
    /\ "save-profile" \in DOMAIN args
    /\ "set-default-profile" \notin DOMAIN args
    => LET N == args["save-profile"] IN
       /\ pc' \in {"exit", "fatal"}
       /\ pc' = "fatal" => file' = file
       /\ pc' = "exit" =>
             /\ file'.state = "ok"
             /\ DOMAIN StoredProfiles(file') = DOMAIN StoredProfiles(file) \cup {N}
             /\ StoredProfiles(file')[N] = RunConfiguration(args, file)
             /\ \A n \in DOMAIN StoredProfiles(file) \ {N} :
                   StoredProfiles(file')[n] = StoredProfiles(file)[n]
             /\ EffectiveDefault(file') = EffectiveDefault(file)

NoPollAfterSaveProfile ==
    "save-profile" \in DOMAIN args =>
        /\ pc \notin LoopPcs \cup {"panic"}
        /\ ~hadRead
        /\ req = NoRequest
        /\ \A i \in 1..Len(logged) :
              logged[i] # LogEntry("fatal", "Wavelog API key is required")

\* C21: -save-profile N without -set-default-profile ends, whatever
\* config.json held (no file, a file that does not decode, a document
\* without a "profiles" key), with the file holding under N the
\* configuration of this run, every other profile as it was and the same
\* default profile name; main then ends without checking the API key and
\* without polling.  A run in which the file cannot be written may stop in
\* log.Fatalf with the file as it was.
C21_SaveProfile ==
    /\ [][SaveProfileStep]_vars
    /\ []NoPollAfterSaveProfile

====
